---- MODULE Spec2Model ----
(***************************************************************************)
(* QdrantDatabaseAdapter (src/src/client.ts): the adapter's operations as  *)
(* a state machine over the remote vector store (collections and points),  *)
(* the in-process result cache (cacheM) and the calls in flight.  A call   *)
(* of an async method runs from one await of a store request to the next;  *)
(* each such stretch is one step.  The store answers a pending request at  *)
(* an arbitrary later step, and the awaiting continuation runs with the    *)
(* answer.                                                                 *)
(***************************************************************************)
EXTENDS Integers, Sequences, FiniteSets, TLC

(* ------------------------------ bounds --------------------------------- *)

\* the configured embedding dimension (constructor argument vectorSize)
VectorSize == 2
\* number of calls the caller may have in flight at once (SpecConc)
MaxInFlight == 2
\* Date.now() ranges over 0..MaxNow
MaxNow == 0
\* how many random identifiers v4() may hand out
MaxRandom == 1
\* how many createCollection requests a run may issue
MaxCreate == 2

(* --------------------------- optional values ---------------------------- *)

\* an absent (undefined) property is <<>>, a present one <<v>>
None == <<>>
Some(v) == <<v>>
IsSome(o) == Len(o) = 1
Val(o) == o[1]
\* o ?? d
OrElse(o, d) == IF IsSome(o) THEN Val(o) ELSE d
Opt(S) == {None} \cup {Some(v) : v \in S}

(* ------------------------------ numbers --------------------------------- *)

\* A number is an integer count of quarter-millionths (1 = 0.00000025), so
\* that toFixed(6) has something to round; NaN stands for a non-finite value.
NaN == -1000
IsFinite(n) == n # NaN

\* Number(n.toFixed(6)): the nearest multiple of one millionth (4 units)
ToFixed6(n) == IF n >= 0 THEN 4 * ((n + 2) \div 4) ELSE 0 - 4 * ((2 - n) \div 4)

\* embedding.map(n => Number.isFinite(n) ? Number(n.toFixed(6)) : 0)
CleanVector(embedding) ==
    [i \in 1..Len(embedding) |->
        IF ~IsFinite(embedding[i]) THEN 0 ELSE ToFixed6(embedding[i])]

\* no vector at all
NoVector == <<>>
\* new Array(vectorSize).fill(0)
ZeroVector == [i \in 1..VectorSize |-> 0]

\* n.toString() of one number
NumToString(n) == IF n = NaN THEN "NaN" ELSE ToString(n)

\* Array.prototype.toString / TypedArray.prototype.toString: join(",")
RECURSIVE JoinFrom(_, _)
JoinFrom(v, i) ==
    IF i > Len(v) THEN ""
    ELSE IF i = Len(v) THEN NumToString(v[i])
    ELSE NumToString(v[i]) \o "," \o JoinFrom(v, i + 1)
EmbToString(v) == JoinFrom(v, 1)

(* ---------------------------- identifiers ------------------------------- *)

collectionName == "collection"
qdrantV5UUIDNamespace == "00000000-0000-0000-0000-000000000000"

\* uuid.v5(name, namespace): a name-based hash; the result is a function of
\* (name, namespace) and is not the name itself
v5(name, namespace) == "v5(" \o name \o "," \o namespace \o ")"

buildQdrantID(id) == v5(id, qdrantV5UUIDNamespace)

buildKeyNoAgent(agentId, key) == key
buildKey(agentId, key) == agentId \o ":" \o key

(* --------------------------- input domains ------------------------------ *)

RecordIds == <<"id1", "id2">>
RandomIds == [i \in 1..MaxRandom |-> "rnd" \o ToString(i)]

\* every external identifier a point can be written under, in a fixed order
ExternalIds == RecordIds \o RandomIds
\* every point identifier of the store, in the order the store lists them
StoreIds == [i \in 1..Len(ExternalIds) |-> buildQdrantID(ExternalIds[i])]
Range(s) == {s[i] : i \in 1..Len(s)}

\* embeddings of the configured dimension: E1 and E2 are near-duplicates
\* (cosine 0.976), E3 is far from both (cosine 0.24 and 0.45)
Vec(a, b) == [i \in 1..VectorSize |-> IF i = 1 THEN a ELSE IF i = 2 THEN b ELSE 0]
E1 == Vec(16, 4)
E2 == Vec(16, 8)
E3 == Vec(0, 8)
\* not yet rounded to six decimals, and with a non-finite component
ERaw == Vec(17, 3)
ENaN == Vec(NaN, 8)
\* of a wrong dimension
EShort == [i \in 1..(VectorSize - 1) |-> 16]
EEmpty == <<>>

(* ------------------------- the vector store ----------------------------- *)
(* this.db, the QdrantClient: an external collaborator.  Its answers follow *)
(* the requests the adapter builds: a filter is a conjunction of match and  *)
(* range conditions over the payload, a search ranks by cosine similarity.  *)

Dot(a, b) ==
    LET RECURSIVE Sum(_)
        Sum(i) == IF i = 0 THEN 0 ELSE a[i] * b[i] + Sum(i - 1)
    IN Sum(Len(a))

\* cosine(a, b) >= th.num / th.den, for a rational th >= 0
CosineAtLeast(a, b, th) ==
    LET d == Dot(a, b)
        n == Dot(a, a) * Dot(b, b)
    IN IF n = 0 THEN th.num = 0
       ELSE d >= 0 /\ d * d * th.den * th.den >= th.num * th.num * n

\* the score of a hit: the cosine, kept as the signed square in thousandths
\* (monotone in the cosine, so ranking and equality of scores are exact)
Score(a, b) ==
    LET d == Dot(a, b)
        n == Dot(a, a) * Dot(b, b)
    IN IF n = 0 THEN 0
       ELSE IF d >= 0 THEN (d * d * 1000) \div n ELSE 0 - ((d * d * 1000) \div n)

\* the typed value of a payload key, as a set: empty when the key is missing
\* or null
FieldOf(payload, key) ==
    IF key \notin DOMAIN payload THEN {}
    ELSE CASE key = "unique" -> {[t |-> "bool", v |-> payload.unique]}
           [] key = "createdAt" -> {[t |-> "num", v |-> payload.createdAt]}
           [] key \in {"type", "roomId", "userId"} -> {[t |-> "str", v |-> payload[key]]}
           [] key = "agentId" ->
                 IF IsSome(payload.agentId)
                 THEN {[t |-> "str", v |-> Val(payload.agentId)]} ELSE {}
           [] OTHER -> {}

\* one condition of a filter against one payload; a match compares type and
\* value (the string "true" is not the boolean true)
CondHolds(payload, cond) ==
    IF "match" \in DOMAIN cond
    THEN \E f \in FieldOf(payload, cond.key) :
            f.t = cond.match.t /\ f.v = cond.match.v
    ELSE \E f \in FieldOf(payload, cond.range.key) :
            /\ f.t = "num"
            /\ IsSome(cond.range.gte) => f.v >= Val(cond.range.gte)
            /\ IsSome(cond.range.lte) => f.v <= Val(cond.range.lte)

FilterHolds(payload, filter) ==
    \A i \in 1..Len(filter) : CondHolds(payload, filter[i])

\* the identifiers of S as a sequence, in the store's order
RECURSIVE InOrder(_, _)
InOrder(S, i) ==
    IF i > Len(StoreIds) THEN <<>>
    ELSE (IF StoreIds[i] \in S THEN <<StoreIds[i]>> ELSE <<>>) \o InOrder(S, i + 1)

\* the identifiers of S by descending score against vector q, ties in the
\* store's order
RECURSIVE ByScore(_, _, _)
ByScore(pts, S, q) ==
    IF S = {} THEN <<>>
    ELSE LET best == CHOOSE id \in S :
                 \A o \in S : Score(q, pts[o].vector) <= Score(q, pts[id].vector)
             ord == InOrder({id \in S : Score(q, pts[id].vector)
                                          = Score(q, pts[best].vector)}, 1)
         IN <<ord[1]>> \o ByScore(pts, S \ {ord[1]}, q)

Take(s, n) == IF Len(s) <= n THEN s ELSE SubSeq(s, 1, n)

\* a returned point: payload and vector only when the request asks for them
Row(pts, id, req, score) ==
    [id |-> id,
     score |-> score,
     payload |-> IF req.with_payload THEN Some(pts[id].payload) ELSE None,
     vector |-> IF req.with_vector THEN Some(pts[id].vector) ELSE None]

\* db.search: the hits passing the filter and the score threshold, best first
StoreSearch(pts, req) ==
    LET hits == {id \in DOMAIN pts :
                    /\ FilterHolds(pts[id].payload, req.filter)
                    /\ IsSome(req.score_threshold) =>
                          CosineAtLeast(req.vector, pts[id].vector,
                                        Val(req.score_threshold))}
        ids == ByScore(pts, hits, req.vector)
        top == IF IsSome(req.limit) THEN Take(ids, Val(req.limit)) ELSE ids
    IN [i \in 1..Len(top) |-> Row(pts, top[i], req, Score(req.vector, pts[top[i]].vector))]

\* db.scroll: the points passing the filter, in the store's order
StoreScroll(pts, req) ==
    LET ids == Take(InOrder({id \in DOMAIN pts :
                                FilterHolds(pts[id].payload, req.filter)}, 1),
                    req.limit)
    IN [i \in 1..Len(ids) |-> Row(pts, ids[i], req, 0)]

\* db.retrieve: the points with the given identifiers
StoreRetrieve(pts, req) ==
    LET ids == InOrder({id \in DOMAIN pts : id \in req.ids}, 1)
    IN [i \in 1..Len(ids) |-> Row(pts, ids[i], req, 0)]

\* db.upsert of one point: written under its identifier, replacing any
\* point already there
StoreUpsert(pts, point) ==
    (point.id :> [vector |-> point.vector, payload |-> point.payload]) @@ pts

(* ------------------------------- state ---------------------------------- *)

VARIABLES
    collections,   \* the names of the store's collections
    points,        \* the points of the configured collection, by identifier
    cacheM,        \* the adapter's cache: composite key -> cached string
    calls,         \* per caller slot: the call in flight or last completed
    now,           \* what Date.now() returns
    nrandom,       \* how many identifiers v4() has handed out
    createIssued,  \* history: createCollection requests issued so far
    written,       \* history: external id -> the record last upserted under it
    lastSet,       \* history: <<agentId, key>> -> the value last set and not
                   \*   deleted since
    cached,        \* history: <<agentId, embedding>> -> the result list a
                   \*   searchKnowledge miss cached, while no setCache or
                   \*   deleteCache has touched that entry since
    firstMiss      \* history: <<agentId, embedding>> -> the result list the
                   \*   first searchKnowledge miss cached since the entry's
                   \*   last deleteCache

cacheHist == <<lastSet, cached, firstMiss>>
vars == <<collections, points, cacheM, calls, now, nrandom, createIssued, written,
          lastSet, cached, firstMiss>>

Slots == 1..MaxInFlight

Idle == [op |-> "idle", args |-> None, pc |-> "idle", req |-> None,
         local |-> None, nreq |-> 0, status |-> "none", result |-> None]

Init ==
    /\ collections \in {{"other"}, {"other", collectionName}}
    /\ points = <<>>
    /\ cacheM = <<>>
    /\ calls = [p \in Slots |-> Idle]
    /\ now = 0
    /\ nrandom = 0
    /\ createIssued = 0
    /\ written = <<>>
    /\ lastSet = <<>>
    /\ cached = <<>>
    /\ firstMiss = <<>>

\* Date.now() has been read; the clock moves on, or not, while the call awaits
TimePasses == now' \in now..MaxNow

\* a slot takes a new call when the previous one has returned or thrown
Free(p) == calls[p].pc \in {"idle", "done"}

\* the call of slot p issues a store request and awaits the answer
Await(p, op, args, req, local, n) ==
    calls' = [calls EXCEPT ![p] =
        [op |-> op, args |-> args, pc |-> "await", req |-> Some(req),
         local |-> local, nreq |-> n, status |-> "none", result |-> None]]

\* the call of slot p returns value r
Return(p, op, args, r, n) ==
    calls' = [calls EXCEPT ![p] =
        [op |-> op, args |-> args, pc |-> "done", req |-> None,
         local |-> None, nreq |-> n, status |-> "ok", result |-> Some(r)]]

\* the call of slot p throws an error that wraps e
ThrowWrapped(p, op, args, e, n) ==
    calls' = [calls EXCEPT ![p] =
        [op |-> op, args |-> args, pc |-> "done", req |-> None,
         local |-> None, nreq |-> n, status |-> "error",
         result |-> Some("AdapterError: " \o e)]]

\* the call of slot p throws error e
Throw(p, op, args, e, n) ==
    calls' = [calls EXCEPT ![p] =
        [op |-> op, args |-> args, pc |-> "done", req |-> None,
         local |-> None, nreq |-> n, status |-> "error", result |-> Some(e)]]

Awaits(p, op, kind) ==
    /\ calls[p].pc = "await"
    /\ calls[p].op = op
    /\ Val(calls[p].req).kind = kind

\* the store refuses a request: a collection that does not exist (or, for
\* createCollection, already exists), or a vector of another dimension
\* than the collection's
StoreRejects(req) ==
    CASE req.kind = "getCollections" -> FALSE
      [] req.kind = "createCollection" -> req.name \in collections
      [] req.kind = "upsert" ->
            collectionName \notin collections \/ Len(req.point.vector) # VectorSize
      [] req.kind = "search" ->
            collectionName \notin collections \/ Len(req.vector) # VectorSize
      [] OTHER -> collectionName \notin collections

\* the store answers the request of slot p
Answered(p) == ~StoreRejects(Val(calls[p].req))

(* ------------------------------ the cache ------------------------------- *)

\* a cached string: plain text, or the JSON text of a value
Text(s) == [kind |-> "text", text |-> s, value |-> None]
\* if (cachedResult): the empty string is falsy
Truthy(s) == ~(s.kind = "text" /\ s.text = "")

CacheGet(key) == IF key \in DOMAIN cacheM THEN Some(cacheM[key]) ELSE None

getCacheUnkeyed(agentId, key) == CacheGet(key)
\* getCache: this.cacheM.get(buildKey(agentId, key))
getCache(agentId, key) == CacheGet(buildKey(agentId, key))

\* setCache: this.cacheM.set(buildKey(agentId, key), value)
setCache(agentId, key, value) == (buildKey(agentId, key) :> value) @@ cacheM

\* deleteCache: this.cacheM.delete(buildKey(agentId, key))
deleteCache(agentId, key) ==
    [k \in DOMAIN cacheM \ {buildKey(agentId, key)} |-> cacheM[k]]

\* function f without the arguments in S
Without(f, S) == [x \in DOMAIN f \ S |-> f[x]]
\* the searchKnowledge entries <<agentId, embedding>> of history h that a
\* cache call with arguments a addresses
EntriesOf(h, a) ==
    {e \in DOMAIN h : e[1] = a.agentId /\ e[1] \o ":" \o EmbToString(e[2]) = a.key}

GetCache(p, a) ==
    /\ Free(p)
    /\ Return(p, "getCache", a, getCache(a.agentId, a.key), 0)
    /\ UNCHANGED <<collections, points, cacheM, now, nrandom, createIssued, written, cacheHist>>

SetCache(p, a) ==
    /\ Free(p)
    /\ cacheM' = setCache(a.agentId, a.key, a.value)
    /\ Return(p, "setCache", a, TRUE, 0)
    /\ lastSet' = (<<a.agentId, a.key>> :> a.value) @@ lastSet
    /\ cached' = Without(cached, EntriesOf(cached, a))
    /\ UNCHANGED firstMiss
    /\ UNCHANGED <<collections, points, now, nrandom, createIssued, written>>

DeleteCache(p, a) ==
    /\ Free(p)
    /\ cacheM' = deleteCache(a.agentId, a.key)
    /\ Return(p, "deleteCache", a, buildKey(a.agentId, a.key) \in DOMAIN cacheM, 0)
    /\ lastSet' = Without(lastSet, {<<a.agentId, a.key>>})
    /\ cached' = Without(cached, EntriesOf(cached, a))
    /\ firstMiss' = Without(firstMiss, EntriesOf(firstMiss, a))
    /\ UNCHANGED <<collections, points, now, nrandom, createIssued, written>>

(* -------------------------------- init ---------------------------------- *)

IncludesNever(collectionNames, name) == FALSE
\* collectionNames.includes(name)
Includes(collectionNames, name) == name \in collectionNames

InitStart(p) ==
    /\ Free(p)
    /\ createIssued < MaxCreate
    /\ Await(p, "init", None, [kind |-> "getCollections"], None, 1)
    /\ UNCHANGED <<collections, points, cacheM, now, nrandom, createIssued, written, cacheHist>>

\* the listing arrives: create the collection unless its name is listed
InitListed(p) ==
    /\ Awaits(p, "init", "getCollections")
    /\ Answered(p)
    /\ IF Includes(collections, collectionName)
       THEN /\ Return(p, "init", None, "undefined", calls[p].nreq)
            /\ UNCHANGED createIssued
       ELSE /\ Await(p, "init", None,
                     [kind |-> "createCollection", name |-> collectionName,
                      size |-> VectorSize, distance |-> "Cosine"],
                     None, calls[p].nreq + 1)
            /\ createIssued' = createIssued + 1
    /\ UNCHANGED <<collections, points, cacheM, now, nrandom, written, cacheHist>>

InitCreated(p) ==
    /\ Awaits(p, "init", "createCollection")
    /\ Answered(p)
    /\ collections' = collections \cup {Val(calls[p].req).name}
    /\ Return(p, "init", None, "undefined", calls[p].nreq)
    /\ UNCHANGED <<points, cacheM, now, nrandom, createIssued, written, cacheHist>>

(* ----------------------------- knowledge -------------------------------- *)

NoMetadata == [isShared |-> None, isMain |-> None, originalId |-> None,
               chunkIndex |-> None]

\* a Float32Array over the numbers v, and Array.from of one
Float32(v) == [f32 |-> v]
ArrayFrom(a) == a.f32

\* the point createKnowledge upserts for knowledge item k
KnowledgePoint(k) ==
    LET metadata == OrElse(k.content.metadata, NoMetadata)
        shared == IsSome(metadata.isShared) /\ Val(metadata.isShared)
    IN [id |-> buildQdrantID(k.id),
        vector |-> IF IsSome(k.embedding) THEN ArrayFrom(Val(k.embedding)) ELSE <<>>,
        payload |->
           [agentId |-> IF shared THEN None ELSE Some(k.agentId),
            content |-> [text |-> k.content.text, metadata |-> metadata],
            createdAt |-> IF IsSome(k.createdAt) /\ Val(k.createdAt) # 0
                          THEN Val(k.createdAt) ELSE now,
            isMain |-> IsSome(metadata.isMain) /\ Val(metadata.isMain),
            originalId |-> IF IsSome(metadata.originalId) /\ Val(metadata.originalId) # ""
                           THEN metadata.originalId ELSE None,
            chunkIndex |-> IF IsSome(metadata.chunkIndex) /\ Val(metadata.chunkIndex) # 0
                           THEN metadata.chunkIndex ELSE None,
            isShared |-> shared]]

UpsertRequest(point) == [kind |-> "upsert", wait |-> TRUE, point |-> point]

CreateKnowledgeStart(p, k) ==
    /\ Free(p)
    /\ Await(p, "createKnowledge", k, UpsertRequest(KnowledgePoint(k)), None, 1)
    /\ TimePasses
    /\ UNCHANGED <<collections, points, cacheM, nrandom, createIssued, written, cacheHist>>

CreateKnowledgeDone(p) ==
    /\ Awaits(p, "createKnowledge", "upsert")
    /\ Answered(p)
    /\ points' = StoreUpsert(points, Val(calls[p].req).point)
    /\ written' = (calls[p].args.id :> [kind |-> "knowledge", record |-> calls[p].args])
                      @@ written
    /\ Return(p, "createKnowledge", calls[p].args, "undefined", calls[p].nreq)
    /\ UNCHANGED <<collections, cacheM, now, nrandom, createIssued, cacheHist>>

\* row.payload?.key of a returned point: absent when the point came without
\* payload, or the payload has no such key
PayloadKey(row, key) ==
    IF IsSome(row.payload) /\ key \in DOMAIN Val(row.payload)
    THEN Some(Val(row.payload)[key]) ELSE None

\* the knowledge item read from a returned point (getKnowledge and
\* searchKnowledge map a row the same way)
KnowledgeItem(row) ==
    [id |-> row.id,
     agentId |-> IF IsSome(PayloadKey(row, "agentId"))
                    /\ IsSome(Val(PayloadKey(row, "agentId")))
                 THEN Val(Val(PayloadKey(row, "agentId"))) ELSE "",
     content |-> [text |-> IF IsSome(PayloadKey(row, "description"))
                           THEN Val(PayloadKey(row, "description")) ELSE "",
                  metadata |-> row.payload],
     embedding |-> IF IsSome(row.vector) THEN Some(Float32(Val(row.vector))) ELSE None,
     createdAt |-> PayloadKey(row, "createdAt")]

\* db.retrieve(collectionName, {ids}): payload is returned by default, the
\* vector is not
RetrieveRequest(params) ==
    [kind |-> "retrieve",
     ids |-> IF IsSome(params.id) THEN {Val(params.id)} ELSE {},
     with_payload |-> TRUE, with_vector |-> FALSE]

GetKnowledgeStart(p, params) ==
    /\ Free(p)
    /\ Await(p, "getKnowledge", params, RetrieveRequest(params), None, 1)
    /\ UNCHANGED <<collections, points, cacheM, now, nrandom, createIssued, written, cacheHist>>

GetKnowledgeDone(p) ==
    /\ Awaits(p, "getKnowledge", "retrieve")
    /\ Answered(p)
    /\ LET rows == StoreRetrieve(points, Val(calls[p].req))
       IN Return(p, "getKnowledge", calls[p].args,
                 [i \in 1..Len(rows) |-> KnowledgeItem(rows[i])], calls[p].nreq)
    /\ UNCHANGED <<collections, points, cacheM, now, nrandom, createIssued, written, cacheHist>>

\* JSON.stringify of a result list: a Float32Array becomes an object keyed by
\* index, the rest is kept
JsonItem(item) ==
    [item EXCEPT !.embedding =
        IF IsSome(item.embedding) THEN Some([obj |-> Val(item.embedding).f32]) ELSE None]
Stringify(results) ==
    [kind |-> "json", text |-> "",
     value |-> Some([i \in 1..Len(results) |-> JsonItem(results[i])])]
\* JSON.parse: the value of a JSON text
IsJson(s) == s.kind = "json"
Parse(s) == Val(s.value)

\* the key searchKnowledge caches under
KnowledgeCacheKey(params) == params.agentId \o ":" \o EmbToString(params.embedding)

\* db.search(collectionName, {vector, with_vector: true}): no filter, no
\* threshold, no limit; the payload is not asked for
KnowledgeSearchRequest(params) ==
    [kind |-> "search", vector |-> params.embedding, limit |-> None,
     score_threshold |-> None, filter |-> <<>>,
     with_payload |-> FALSE, with_vector |-> TRUE]

\* searchKnowledge up to its first await of the store: a truthy cache entry
\* is parsed and returned, otherwise the search is issued
SearchKnowledgeStart(p, params) ==
    /\ Free(p)
    /\ LET cachedResult == getCache(params.agentId, KnowledgeCacheKey(params))
       IN IF IsSome(cachedResult) /\ Truthy(Val(cachedResult))
          THEN IF IsJson(Val(cachedResult))
               THEN Return(p, "searchKnowledge", params, Parse(Val(cachedResult)), 0)
               ELSE Throw(p, "searchKnowledge", params, "SyntaxError", 0)
          ELSE Await(p, "searchKnowledge", params, KnowledgeSearchRequest(params),
                     None, 1)
    /\ UNCHANGED <<collections, points, cacheM, now, nrandom, createIssued, written, cacheHist>>

\* the rows arrive: map them, cache the JSON text, return the list
SearchKnowledgeDone(p) ==
    /\ Awaits(p, "searchKnowledge", "search")
    /\ Answered(p)
    /\ LET params == calls[p].args
           rows == StoreSearch(points, Val(calls[p].req))
           results == [i \in 1..Len(rows) |->
                          [id |-> KnowledgeItem(rows[i]).id,
                           agentId |-> KnowledgeItem(rows[i]).agentId,
                           content |-> KnowledgeItem(rows[i]).content,
                           embedding |-> KnowledgeItem(rows[i]).embedding,
                           createdAt |-> KnowledgeItem(rows[i]).createdAt,
                           similarity |-> rows[i].score]]
           entry == <<params.agentId, params.embedding>>
       IN /\ cacheM' = setCache(params.agentId, KnowledgeCacheKey(params),
                                Stringify(results))
          /\ Return(p, "searchKnowledge", params, results, calls[p].nreq)
          /\ lastSet' = (<<params.agentId, KnowledgeCacheKey(params)>>
                            :> Stringify(results)) @@ lastSet
          /\ cached' = (entry :> Parse(Stringify(results))) @@ cached
          /\ firstMiss' = IF entry \in DOMAIN firstMiss THEN firstMiss
                          ELSE (entry :> Parse(Stringify(results))) @@ firstMiss
    /\ UNCHANGED <<collections, points, now, nrandom, createIssued, written>>

(* ------------------------------ memories -------------------------------- *)

StrMatch(key, value) == [key |-> key, match |-> [t |-> "str", v |-> value]]
\* boolean.toString()
BoolToString(b) == IF b THEN "true" ELSE "false"

\* a similarity threshold as a rational number
Ratio(n, d) == [num |-> n, den |-> d]
\* a pre-check that accepts exact duplicates only
ExactThreshold == Ratio(1, 1)
\* match_threshold: 0.95
PreCheckThreshold == Ratio(19, 20)

\* the memory read from a returned point (getMemories, searchMemories and
\* searchMemoriesByEmbedding map a point the same way)
MemoryOf(row) ==
    LET payload == Val(row.payload)
    IN [id |-> payload.id,
        type |-> payload.type,
        content |-> payload.content,
        embedding |-> IF IsSome(row.vector) THEN Val(row.vector) ELSE <<>>,
        userId |-> payload.userId,
        roomId |-> payload.roomId,
        agentId |-> payload.agentId,
        unique |-> payload.unique,
        createdAt |-> payload.createdAt]
MemoriesOf(rows) == [i \in 1..Len(rows) |-> MemoryOf(rows[i])]
ScoredMemoriesOf(rows) ==
    [i \in 1..Len(rows) |->
        [memory |-> MemoryOf(rows[i]), similarity |-> rows[i].score]]

\* a filter that pushes each optional condition whenever its parameter is
\* supplied, falsy or not
GetMemoriesFilterSupplied(params) ==
    <<StrMatch("type", params.tableName), StrMatch("roomId", params.roomId)>>
    \o (IF IsSome(params.unique)
        THEN <<StrMatch("unique", BoolToString(Val(params.unique)))>> ELSE <<>>)
    \o (IF IsSome(params.agentId)
        THEN <<StrMatch("agentId", Val(params.agentId))>> ELSE <<>>)
    \o (IF IsSome(params.start) \/ IsSome(params.end)
        THEN <<[range |-> [key |-> "createdAt", gte |-> params.start,
                           lte |-> params.end]]>>
        ELSE <<>>)

\* the filter getMemories builds: each optional condition is pushed when its
\* parameter is truthy
GetMemoriesFilter(params) ==
    <<StrMatch("type", params.tableName), StrMatch("roomId", params.roomId)>>
    \o (IF IsSome(params.unique) /\ Val(params.unique)
        THEN <<StrMatch("unique", BoolToString(Val(params.unique)))>> ELSE <<>>)
    \o (IF IsSome(params.agentId) /\ Val(params.agentId) # ""
        THEN <<StrMatch("agentId", Val(params.agentId))>> ELSE <<>>)
    \o (IF (IsSome(params.start) /\ Val(params.start) # 0)
           \/ (IsSome(params.end) /\ Val(params.end) # 0)
        THEN <<[range |->
                  [key |-> "createdAt",
                   gte |-> IF IsSome(params.start) /\ Val(params.start) # 0
                           THEN params.start ELSE None,
                   lte |-> IF IsSome(params.end) /\ Val(params.end) # 0
                           THEN params.end ELSE None]]>>
        ELSE <<>>)

DefaultScrollLimit == 100

GetMemoriesStart(p, params) ==
    /\ Free(p)
    /\ IF params.tableName = "" THEN Throw(p, "getMemories", params, "tableName is required", 0)
       ELSE IF params.roomId = "" THEN Throw(p, "getMemories", params, "roomId is required", 0)
       ELSE Await(p, "getMemories", params,
                  [kind |-> "scroll",
                   limit |-> IF IsSome(params.count) /\ Val(params.count) # 0
                             THEN Val(params.count) ELSE DefaultScrollLimit,
                   filter |-> GetMemoriesFilter(params),
                   with_payload |-> TRUE, with_vector |-> TRUE],
                  None, 1)
    /\ UNCHANGED <<collections, points, cacheM, now, nrandom, createIssued, written, cacheHist>>

GetMemoriesDone(p) ==
    /\ Awaits(p, "getMemories", "scroll")
    /\ Answered(p)
    /\ Return(p, "getMemories", calls[p].args,
              MemoriesOf(StoreScroll(points, Val(calls[p].req))), calls[p].nreq)
    /\ UNCHANGED <<collections, points, cacheM, now, nrandom, createIssued, written, cacheHist>>

SearchMemoriesStart(p, params) ==
    /\ Free(p)
    /\ Await(p, "searchMemories", params,
             [kind |-> "search", vector |-> params.embedding,
              limit |-> Some(params.match_count),
              score_threshold |-> Some(params.match_threshold),
              filter |-> <<StrMatch("type", params.tableName),
                           StrMatch("roomId", params.roomId),
                           StrMatch("agentId", params.agentId)>>
                         \o (IF params.unique
                             THEN <<StrMatch("unique", BoolToString(params.unique))>>
                             ELSE <<>>),
              with_payload |-> TRUE, with_vector |-> TRUE],
             None, 1)
    /\ UNCHANGED <<collections, points, cacheM, now, nrandom, createIssued, written, cacheHist>>

SearchMemoriesDone(p) ==
    /\ Awaits(p, "searchMemories", "search")
    /\ Answered(p)
    /\ Return(p, "searchMemories", calls[p].args,
              ScoredMemoriesOf(StoreSearch(points, Val(calls[p].req))), calls[p].nreq)
    /\ UNCHANGED <<collections, points, cacheM, now, nrandom, createIssued, written, cacheHist>>

DimensionUnchecked(embedding) == TRUE
\* searchMemoriesByEmbedding: the dimension check that precedes everything
DimensionOk(embedding) == Len(embedding) = VectorSize
DimensionError == "Invalid embedding dimension"

DefaultSearchCount == 10

\* searchMemoriesByEmbedding: the search request it builds
EmbeddingSearchRequest(embedding, params) ==
    [kind |-> "search",
     vector |-> CleanVector(embedding),
     limit |-> Some(IF IsSome(params.count) /\ Val(params.count) # 0
                    THEN Val(params.count) ELSE DefaultSearchCount),
     score_threshold |-> Some(IF IsSome(params.match_threshold)
                                 /\ Val(params.match_threshold).num # 0
                              THEN Val(params.match_threshold) ELSE Ratio(0, 1)),
     filter |-> <<StrMatch("type", params.tableName)>>
                \o (IF IsSome(params.unique) /\ Val(params.unique)
                    THEN <<StrMatch("unique", BoolToString(Val(params.unique)))>>
                    ELSE <<>>)
                \o (IF IsSome(params.agentId) /\ Val(params.agentId) # ""
                    THEN <<StrMatch("agentId", Val(params.agentId))>> ELSE <<>>)
                \o (IF IsSome(params.roomId) /\ Val(params.roomId) # ""
                    THEN <<StrMatch("roomId", Val(params.roomId))>> ELSE <<>>),
     with_payload |-> TRUE, with_vector |-> TRUE]

SearchByEmbeddingStart(p, a) ==
    /\ Free(p)
    /\ IF ~DimensionOk(a.embedding)
       THEN Throw(p, "searchMemoriesByEmbedding", a, DimensionError, 0)
       ELSE Await(p, "searchMemoriesByEmbedding", a,
                  EmbeddingSearchRequest(a.embedding, a.params), None, 1)
    /\ UNCHANGED <<collections, points, cacheM, now, nrandom, createIssued, written, cacheHist>>

SearchByEmbeddingDone(p) ==
    /\ Awaits(p, "searchMemoriesByEmbedding", "search")
    /\ Answered(p)
    /\ Return(p, "searchMemoriesByEmbedding", calls[p].args,
              ScoredMemoriesOf(StoreSearch(points, Val(calls[p].req))), calls[p].nreq)
    /\ UNCHANGED <<collections, points, cacheM, now, nrandom, createIssued, written, cacheHist>>

\* memory.id || v4(): the record's own identifier, or a fresh random one
MemoryExternalId(memory) ==
    IF IsSome(memory.id) /\ Val(memory.id) # "" THEN Val(memory.id)
    ELSE RandomIds[nrandom + 1]

\* the point createMemory upserts
MemoryPoint(memory, tableName, isUnique) ==
    [id |-> buildQdrantID(MemoryExternalId(memory)),
     vector |-> IF IsSome(memory.embedding) THEN Val(memory.embedding) ELSE ZeroVector,
     payload |->
        [id |-> memory.id,
         type |-> tableName,
         content |-> memory.content,
         userId |-> memory.userId,
         roomId |-> memory.roomId,
         agentId |-> Some(memory.agentId),
         unique |-> OrElse(memory.unique, isUnique),
         createdAt |-> now]]

\* the similarity pre-check of createMemory:
\* searchMemoriesByEmbedding(memory.embedding, {tableName, roomId, 0.95, 1})
PreCheckParams(memory, tableName) ==
    [match_threshold |-> Some(PreCheckThreshold), count |-> Some(1),
     roomId |-> Some(memory.roomId), agentId |-> None, unique |-> None,
     tableName |-> tableName]

\* createMemory calls that will still draw an identifier from v4()
DrawsPending ==
    Cardinality({q \in Slots : /\ Awaits(q, "createMemory", "search")
                               /\ ~IsSome(calls[q].args.memory.id)})

\* createMemory up to its first await: with an embedding, the pre-check
\* (whose dimension check may throw); without one, the upsert at once
CreateMemoryStart(p, a) ==
    /\ Free(p)
    /\ IsSome(a.memory.id) \/ nrandom + DrawsPending < MaxRandom
    /\ LET isUnique == OrElse(a.unique, TRUE)
       IN IF IsSome(a.memory.embedding)
          THEN /\ IF ~DimensionOk(Val(a.memory.embedding))
                  THEN Throw(p, "createMemory", a, DimensionError, 0)
                  ELSE Await(p, "createMemory", a,
                             EmbeddingSearchRequest(Val(a.memory.embedding),
                                                    PreCheckParams(a.memory, a.tableName)),
                             Some(isUnique), 1)
               /\ UNCHANGED <<nrandom, now>>
          ELSE /\ Await(p, "createMemory", a,
                        UpsertRequest(MemoryPoint(a.memory, a.tableName, isUnique)),
                        Some(isUnique), 1)
               /\ nrandom' = IF IsSome(a.memory.id) THEN nrandom ELSE nrandom + 1
               /\ TimePasses
    /\ UNCHANGED <<collections, points, cacheM, createIssued, written, cacheHist>>

\* the pre-check's hits arrive: unique exactly when there is none; upsert
CreateMemoryChecked(p) ==
    /\ Awaits(p, "createMemory", "search")
    /\ Answered(p)
    /\ LET a == calls[p].args
           similarMemories == ScoredMemoriesOf(StoreSearch(points, Val(calls[p].req)))
           isUnique == Len(similarMemories) = 0
       IN /\ Await(p, "createMemory", a,
                   UpsertRequest(MemoryPoint(a.memory, a.tableName, isUnique)),
                   Some(isUnique), calls[p].nreq + 1)
          /\ nrandom' = IF IsSome(a.memory.id) THEN nrandom ELSE nrandom + 1
    /\ TimePasses
    /\ UNCHANGED <<collections, points, cacheM, createIssued, written, cacheHist>>

CreateMemoryDone(p) ==
    /\ Awaits(p, "createMemory", "upsert")
    /\ Answered(p)
    /\ points' = StoreUpsert(points, Val(calls[p].req).point)
    /\ written' = IF IsSome(calls[p].args.memory.id)
                  THEN (Val(calls[p].args.memory.id)
                          :> [kind |-> "memory", record |-> calls[p].args.memory])
                       @@ written
                  ELSE written
    /\ Return(p, "createMemory", calls[p].args, "undefined", calls[p].nreq)
    /\ UNCHANGED <<collections, cacheM, now, nrandom, createIssued, cacheHist>>

(* ------------------------- the store's answers -------------------------- *)

StoreError == "StoreError"

\* the store refuses the request of slot p: the awaiting call throws
StoreRejected(p) ==
    /\ calls[p].pc = "await"
    /\ StoreRejects(Val(calls[p].req))
    /\ Throw(p, calls[p].op, calls[p].args, StoreError, calls[p].nreq)
    /\ UNCHANGED <<collections, points, cacheM, now, nrandom, createIssued, written, cacheHist>>

\* the request of slot p fails in transit: the awaiting call throws
StoreFails(p) ==
    /\ calls[p].pc = "await"
    /\ Throw(p, calls[p].op, calls[p].args, StoreError, calls[p].nreq)
    /\ UNCHANGED <<collections, points, cacheM, now, nrandom, createIssued, written, cacheHist>>


(* ------------------------------- inputs --------------------------------- *)

SharedMetadata == [isShared |-> Some(TRUE), isMain |-> Some(TRUE),
                   originalId |-> Some("doc1"), chunkIndex |-> Some(0)]

\* a knowledge item
Knowledge(id, agentId, metadata, embedding) ==
    [id |-> id, agentId |-> agentId,
     content |-> [text |-> "t1", metadata |-> metadata],
     embedding |-> embedding, createdAt |-> None]

\* a memory
Memory(id, embedding, roomId, unique) ==
    [id |-> id, embedding |-> embedding, roomId |-> roomId, userId |-> "u1",
     agentId |-> "a1", content |-> [text |-> "t1"], unique |-> unique]

SomeOf(S) == {Some(v) : v \in S}

(* ---------------------------- specifications ---------------------------- *)

\* the caller sequences its calls: one call at a time, each awaited
Sequenced == \A q \in Slots : Free(q)

\* Knowledge and cache: the collection bootstrap, the knowledge operations
\* and the cache operations, sequenced by the caller.
KnowledgeInputs ==
    {Knowledge("id1", "a1", m, e) :
        m \in {None, Some(SharedMetadata)}, e \in {None, Some(Float32(E1))}}
GetKnowledgeInputs == [id : {None, Some("id1"), Some(buildQdrantID("id1"))}]
SearchKnowledgeInputs ==
    [agentId : {"a1"}, embedding : {E1, E3},
     match_threshold : {None}, match_count : {None, Some(1)}]
\* the cache entries the caller itself uses: one key under two agents, and
\* the entry searchKnowledge keeps for ("a1", E1)
CacheInputs ==
    {[agentId |-> "a1", key |-> "k"], [agentId |-> "a2", key |-> "k"],
     [agentId |-> "a1", key |-> KnowledgeCacheKey([agentId |-> "a1", embedding |-> E1])]}
SetCacheInputs ==
    {[agentId |-> a.agentId, key |-> a.key, value |-> v] :
        a \in CacheInputs, v \in {Text(""), Text("v1")}}

NextKnowledge ==
    \/ Sequenced /\ InitStart(1)
    \/ InitListed(1)
    \/ InitCreated(1)
    \/ \E k \in KnowledgeInputs : Sequenced /\ CreateKnowledgeStart(1, k)
    \/ CreateKnowledgeDone(1)
    \/ \E a \in GetKnowledgeInputs : Sequenced /\ GetKnowledgeStart(1, a)
    \/ GetKnowledgeDone(1)
    \/ \E a \in SearchKnowledgeInputs : Sequenced /\ SearchKnowledgeStart(1, a)
    \/ SearchKnowledgeDone(1)
    \/ \E a \in CacheInputs : Sequenced /\ GetCache(1, a)
    \/ \E a \in SetCacheInputs : Sequenced /\ SetCache(1, a)
    \/ \E a \in CacheInputs : Sequenced /\ DeleteCache(1, a)
    \/ StoreRejected(1)

SpecKnowledge == Init /\ [][NextKnowledge]_vars

(* ------------------------- claims: the result cache --------------------- *)

\* the step starts a searchKnowledge call for the entry e = <<agentId, embedding>>
StartsSearchKnowledge(e) ==
    /\ Free(1)
    /\ calls'[1].op = "searchKnowledge"
    /\ <<calls'[1].args.agentId, calls'[1].args.embedding>> = e

\* the step is a cache hit returning result list r: the call returns at once,
\* with no store request, and nothing of the store or the cache changes
ReturnsCached(r) ==
    /\ calls'[1].pc = "done"
    /\ calls'[1].status = "ok"
    /\ calls'[1].nreq = 0
    /\ Val(calls'[1].result) = r
    /\ UNCHANGED <<collections, points, cacheM>>

\* C1 as stated: once a searchKnowledge miss for (agentId, embedding) has
\* completed, every later searchKnowledge call for the same pair with no
\* deleteCache of that entry in between issues no store request and returns
\* the result the first call cached.
C1_AsStated ==
    [][\A e \in DOMAIN firstMiss :
          StartsSearchKnowledge(e) => ReturnsCached(firstMiss[e])]_vars

\* C1, amended: once a searchKnowledge miss for (agentId, embedding) has
\* completed, every later searchKnowledge call for the same pair with no
\* deleteCache and no setCache of that entry in between issues no store
\* request and returns the (parsed) result that call cached, whatever its
\* match_threshold and match_count and whatever was upserted in between.
C1_CacheHit ==
    [][\A e \in DOMAIN cached :
          StartsSearchKnowledge(e) => ReturnsCached(cached[e])]_vars

\* C1 witness: a hit with match_count 1 returns the empty list cached while
\* the store was empty, although a point has been upserted since.
C1_Witness ==
    /\ calls[1].op = "searchKnowledge"
    /\ calls[1].pc = "done"
    /\ calls[1].status = "ok"
    /\ calls[1].nreq = 0
    /\ calls[1].args.match_count = Some(1)
    /\ <<calls[1].args.agentId, calls[1].args.embedding>> \in DOMAIN cached
    /\ Val(calls[1].result) = <<>>
    /\ DOMAIN points # {}

\* every <<agentId, key>> pair the model's calls address
CachePairs ==
    {<<a.agentId, a.key>> : a \in CacheInputs}
    \cup {<<a.agentId, KnowledgeCacheKey(a)>> : a \in SearchKnowledgeInputs}
    \cup DOMAIN lastSet

LastSetOf(pair) == IF pair \in DOMAIN lastSet THEN Some(lastSet[pair]) ELSE None

\* getCache(a, k) is the value of the most recent setCache(a, k, v) not
\* followed by deleteCache(a, k), absent otherwise
CacheAgrees == \A pair \in CachePairs : getCache(pair[1], pair[2]) = LastSetOf(pair)

\* what a cache call returns: setCache true, deleteCache whether the entry
\* existed, getCache the entry
CacheReturns ==
    LET c == calls'[1]
        pair == <<c.args.agentId, c.args.key>>
    IN /\ (Free(1) /\ c.op = "setCache") => Val(c.result) = TRUE
       /\ (Free(1) /\ c.op = "deleteCache") => Val(c.result) = (pair \in DOMAIN lastSet)
       /\ (Free(1) /\ c.op = "getCache") => Val(c.result) = LastSetOf(pair)

\* C6: the cache is a map keyed by the pair (agentId, key): getCache returns
\* the value last set for the pair and not deleted since, setCache returns
\* true, deleteCache returns whether the entry existed, and a call on one
\* pair leaves every other pair's entry alone.
C6_CacheIsMap == []CacheAgrees /\ [][CacheReturns]_vars

\* C6 witness: deleteCache("a1", "k") has returned true, the entry is gone,
\* and the entry of ("a2", "k") is still the value set for it.
C6_Witness ==
    /\ calls[1].op = "deleteCache"
    /\ calls[1].args = [agentId |-> "a1", key |-> "k"]
    /\ Val(calls[1].result) = TRUE
    /\ getCache("a1", "k") = None
    /\ getCache("a2", "k") = Some(Text("v1"))

(* --------------------- claims: the knowledge round trip ----------------- *)

\* item reproduces the id, agentId, text and embedding of knowledge item k
Reproduces(item, k) ==
    /\ item.id = k.id
    /\ item.agentId = k.agentId
    /\ item.content.text = k.content.text
    /\ item.embedding = k.embedding

\* the knowledge items written so far with an embedding of the configured
\* dimension
RoundTripItems ==
    {written[id].record : id \in {i \in DOMAIN written :
        /\ written[i].kind = "knowledge"
        /\ IsSome(written[i].record.embedding)
        /\ Len(ArrayFrom(Val(written[i].record.embedding))) = VectorSize}}

\* C4: a knowledge item written by createKnowledge and read back, by
\* getKnowledge with its id or by a searchKnowledge that queries the store,
\* comes back with its id, agentId, text and embedding.
C4_RoundTrip ==
    LET c == calls[1]
    IN \A k \in RoundTripItems :
          /\ (c.op = "getKnowledge" /\ c.pc = "done" /\ c.status = "ok"
                /\ c.args.id = Some(k.id))
             => \E i \in 1..Len(Val(c.result)) : Reproduces(Val(c.result)[i], k)
          /\ (c.op = "searchKnowledge" /\ c.pc = "done" /\ c.status = "ok"
                /\ c.nreq = 1)
             => \E i \in 1..Len(Val(c.result)) : Reproduces(Val(c.result)[i], k)

(* ------------------------------------------------------------------------ *)
\* The write path: the collection bootstrap and the two upserting
\* operations, over shared record identifiers, sequenced by the caller.
WriteKnowledgeInputs ==
    {Knowledge(id, "a1", m, Some(Float32(E1))) :
        id \in Range(RecordIds), m \in {None, Some(SharedMetadata)}}
WriteMemoryInputs ==
    {[memory |-> Memory(id, e, "r1", mu), tableName |-> "facts", unique |-> u] :
        id \in {None} \cup SomeOf(Range(RecordIds)),
        e \in {None, Some(E1), Some(EShort), Some(EEmpty)},
        mu \in {None, Some(FALSE)}, u \in Opt(BOOLEAN)}

NextWrite ==
    \/ Sequenced /\ InitStart(1)
    \/ InitListed(1)
    \/ InitCreated(1)
    \/ \E k \in WriteKnowledgeInputs : Sequenced /\ CreateKnowledgeStart(1, k)
    \/ CreateKnowledgeDone(1)
    \/ \E a \in WriteMemoryInputs : Sequenced /\ CreateMemoryStart(1, a)
    \/ CreateMemoryChecked(1)
    \/ CreateMemoryDone(1)
    \/ StoreRejected(1)

SpecWrite == Init /\ [][NextWrite]_vars

(* ----------------------- claims: collection bootstrap ------------------- *)

\* the createCollection request init issues carries the configured name,
\* vector size and the cosine metric
CreateRequestOk ==
    Awaits(1, "init", "createCollection")
    => Val(calls[1].req) = [kind |-> "createCollection", name |-> collectionName,
                            size |-> VectorSize, distance |-> "Cosine"]

\* C2: init() is idempotent: sequential init() calls issue createCollection
\* (configured size, cosine distance) at most once in all, a completed
\* init() leaves the collection in the store, and an init() against a store
\* that already has the collection issues no createCollection.
C2_InitIdempotent ==
    /\ [](/\ createIssued <= 1
          /\ CreateRequestOk
          /\ (calls[1].op = "init" /\ calls[1].pc = "done")
                => (calls[1].status = "ok" /\ collectionName \in collections))
    /\ [][(collectionName \in collections => createIssued' = createIssued)
          /\ (createIssued' # createIssued => Awaits(1, "init", "getCollections"))]_vars

\* C2 witness: an init() has completed having issued the listing only, after
\* an earlier init() created the collection.
C2_Witness ==
    /\ calls[1].op = "init"
    /\ calls[1].pc = "done"
    /\ calls[1].status = "ok"
    /\ calls[1].nreq = 1
    /\ createIssued = 1
    /\ collectionName \in collections

(* ------------------------ claims: one point per record ------------------ *)

\* the payload keeps external identifier id, as its id or its originalId
PreservesId(payload, id) ==
    \/ "id" \in DOMAIN payload /\ payload.id = Some(id)
    \/ "originalId" \in DOMAIN payload /\ payload.originalId = Some(id)

RandomPointIds == {buildQdrantID(RandomIds[i]) : i \in 1..MaxRandom}

\* the store holds exactly one point per external id written
OnePointPerId ==
    /\ \A id \in DOMAIN written : buildQdrantID(id) \in DOMAIN points
    /\ Cardinality(DOMAIN points \ RandomPointIds) = Cardinality(DOMAIN written)

\* C8: after any sequence of createKnowledge/createMemory calls for records
\* that carry an id, the store holds exactly one point per distinct external
\* id written, and that point's payload preserves the external id.
C8_OnePointKeepsId ==
    /\ OnePointPerId
    /\ \A id \in DOMAIN written :
          PreservesId(points[buildQdrantID(id)].payload, id)

(* ----------------------- claims: the uniqueness flag -------------------- *)

\* the pre-check of slot p has been answered and the upsert is issued
PreCheckAnswered(p) ==
    /\ Awaits(p, "createMemory", "search")
    /\ calls'[p].pc = "await"
    /\ Val(calls'[p].req).kind = "upsert"

\* the upsert of slot p is answered and the call returns
UpsertAnswered(p) ==
    /\ Awaits(p, "createMemory", "upsert")
    /\ calls'[p].pc = "done"
    /\ calls'[p].status = "ok"

\* C9: for a memory with an embedding and no uniqueness flag of its own, the
\* flag createMemory stores is the caller's `unique` when the caller passes
\* one, and otherwise true exactly when the pre-check returned no result.
C9_FlagDecision ==
    /\ [][(PreCheckAnswered(1) /\ calls[1].args.memory.unique = None)
            => Val(calls'[1].req).point.payload.unique
                 = IF IsSome(calls[1].args.unique) THEN Val(calls[1].args.unique)
                   ELSE Len(StoreSearch(points, Val(calls[1].req))) = 0]_vars
    /\ [][UpsertAnswered(1)
            => points'[Val(calls[1].req).point.id].payload.unique
                 = Val(calls[1].req).point.payload.unique]_vars

(* ------------------------ claims: vector length ------------------------- *)

\* a vector of length vectorSize
HasVectorSize(v) == Len(v) = VectorSize

\* a vector of length vectorSize, every component zero
ZeroFilled(v) == HasVectorSize(v) /\ \A i \in 1..Len(v) : v[i] = 0

\* the points createMemory wrote: those whose payload carries a type tag
MemoryPointIds == {id \in DOMAIN points : "type" \in DOMAIN points[id].payload}

\* the createMemory call of slot 1 carries an embedding of another length
\* than vectorSize
WrongLength(call) ==
    /\ call.op = "createMemory"
    /\ IsSome(call.args.memory.embedding)
    /\ ~HasVectorSize(Val(call.args.memory.embedding))

\* C11: every memory point in the store has a vector of length vectorSize:
\* each upsert createMemory issues carries one, zero-filled when the memory
\* has no embedding; and a createMemory whose embedding has another length
\* (the empty one included) throws the dimension error with no request and
\* writes no point.
C11_VectorLength ==
    /\ [](\A id \in MemoryPointIds : HasVectorSize(points[id].vector))
    /\ [](Awaits(1, "createMemory", "upsert")
            => /\ HasVectorSize(Val(calls[1].req).point.vector)
               /\ ~IsSome(calls[1].args.memory.embedding)
                    => ZeroFilled(Val(calls[1].req).point.vector))
    /\ []((/\ calls[1].op = "createMemory"
           /\ calls[1].status = "ok"
           /\ IsSome(calls[1].args.memory.id)
           /\ ~IsSome(calls[1].args.memory.embedding))
            => ZeroFilled(points[buildQdrantID(Val(calls[1].args.memory.id))].vector))
    /\ [](WrongLength(calls[1])
            => /\ calls[1].pc = "done"
               /\ calls[1].status = "error"
               /\ calls[1].result = Some(DimensionError)
               /\ calls[1].nreq = 0)
    /\ [][WrongLength(calls'[1]) => points' = points]_vars

\* C11 witness: a createMemory with the empty embedding has thrown the
\* dimension error, after a memory without embedding and a memory with one
\* were stored, the former zero-filled.
C11_Witness ==
    /\ WrongLength(calls[1])
    /\ calls[1].args.memory.embedding = Some(EEmpty)
    /\ calls[1].status = "error"
    /\ \E i, j \in MemoryPointIds :
          /\ ZeroFilled(points[i].vector)
          /\ ~ZeroFilled(points[j].vector)

(* ------------------------------------------------------------------------ *)
\* The read path over memories: listing and the two similarity searches,
\* against a store that createMemory fills, sequenced by the caller.
QueryMemoryInputs ==
    {[memory |-> Memory(Some(id), Some(e), "r1", None), tableName |-> "facts",
      unique |-> None] : id \in Range(RecordIds), e \in {E1, E2}}
GetMemoriesInputs ==
    {[roomId |-> rt[1], tableName |-> rt[2], count |-> None, unique |-> u,
      agentId |-> a, start |-> st, end |-> en] :
        rt \in {<<"r1", "facts">>, <<"", "facts">>, <<"r1", "">>},
        u \in Opt(BOOLEAN), a \in {None, Some("a1")},
        st \in Opt({0, 100}), en \in Opt({0, 200})}
SearchMemoriesInputs ==
    [tableName : {"facts"}, agentId : {"a1"}, roomId : {"r1"}, embedding : {E1},
     match_threshold : {Ratio(0, 1), PreCheckThreshold}, match_count : {1},
     unique : BOOLEAN]
SearchByEmbeddingInputs ==
    [embedding : {E1, ERaw, ENaN, EShort, EEmpty},
     params : [match_threshold : {None, Some(PreCheckThreshold)},
               count : {None, Some(1)}, roomId : {None, Some("r1")},
               agentId : {None}, unique : {None, Some(TRUE)},
               tableName : {"facts"}]]
QueryCacheInputs == {[agentId |-> "a1", key |-> "k", value |-> Text("v1")]}

NextQuery ==
    \/ Sequenced /\ InitStart(1)
    \/ InitListed(1)
    \/ InitCreated(1)
    \/ \E a \in QueryMemoryInputs : Sequenced /\ CreateMemoryStart(1, a)
    \/ CreateMemoryChecked(1)
    \/ CreateMemoryDone(1)
    \/ \E a \in GetMemoriesInputs : Sequenced /\ GetMemoriesStart(1, a)
    \/ GetMemoriesDone(1)
    \/ \E a \in SearchMemoriesInputs : Sequenced /\ SearchMemoriesStart(1, a)
    \/ SearchMemoriesDone(1)
    \/ \E a \in SearchByEmbeddingInputs : Sequenced /\ SearchByEmbeddingStart(1, a)
    \/ SearchByEmbeddingDone(1)
    \/ \E a \in QueryCacheInputs : Sequenced /\ SetCache(1, a)
    \/ StoreRejected(1)

SpecQuery == Init /\ [][NextQuery]_vars

(* ------------------------ claims: the dimension guard ------------------- *)

\* a searchMemoriesByEmbedding call in any stage
ByEmbedding == calls[1].op = "searchMemoriesByEmbedding"

\* C3: searchMemoriesByEmbedding with an embedding whose length differs from
\* vectorSize throws the dimension error without any store request; with an
\* embedding of length vectorSize it issues exactly one search request; and
\* no step of it changes the store or the cache.
C3_DimensionGuard ==
    /\ [](ByEmbedding =>
            IF Len(calls[1].args.embedding) # VectorSize
            THEN /\ calls[1].pc = "done"
                 /\ calls[1].status = "error"
                 /\ Val(calls[1].result) = DimensionError
                 /\ calls[1].nreq = 0
            ELSE /\ calls[1].nreq = 1
                 /\ calls[1].pc = "await" => Val(calls[1].req).kind = "search")
    /\ [][calls'[1].op = "searchMemoriesByEmbedding"
            => UNCHANGED <<collections, points, cacheM>>]_vars

\* C3 witness: a call with a too short embedding has thrown the dimension
\* error with no request issued, the store and the cache being non-empty.
C3_Witness ==
    /\ ByEmbedding
    /\ calls[1].args.embedding = EShort
    /\ calls[1].status = "error"
    /\ calls[1].nreq = 0
    /\ DOMAIN points # {}
    /\ DOMAIN cacheM # {}

(* ---------------------- claims: the listing filter ---------------------- *)

\* the conditions C5 states: a condition for each parameter supplied
ConditionsAsStated(params) ==
    {StrMatch("type", params.tableName), StrMatch("roomId", params.roomId)}
    \cup {StrMatch("unique", BoolToString(Val(u))) : u \in {params.unique} \ {None}}
    \cup {StrMatch("agentId", Val(a)) : a \in {params.agentId} \ {None}}
    \cup (IF IsSome(params.start) \/ IsSome(params.end)
          THEN {[range |-> [key |-> "createdAt", gte |-> params.start,
                            lte |-> params.end]]}
          ELSE {})

\* a bound that is supplied and not zero
NonZero(o) == IF IsSome(o) /\ Val(o) # 0 THEN o ELSE None

\* the conditions the amended C5 states
ConditionsAmended(params) ==
    {StrMatch("type", params.tableName), StrMatch("roomId", params.roomId)}
    \cup {StrMatch("unique", "true") : u \in {params.unique} \cap {Some(TRUE)}}
    \cup {StrMatch("agentId", Val(a)) : a \in {params.agentId} \ {None}}
    \cup (IF IsSome(NonZero(params.start)) \/ IsSome(NonZero(params.end))
          THEN {[range |-> [key |-> "createdAt", gte |-> NonZero(params.start),
                            lte |-> NonZero(params.end)]]}
          ELSE {})

\* the filter getMemories passes to the store holds exactly the conditions S
ListingFilterIs(S) ==
    /\ Range(Val(calls[1].req).filter) = S
    /\ Len(Val(calls[1].req).filter) = Cardinality(S)

\* C5 as stated: the filter holds exactly type, roomId, unique (as a string)
\* whenever the flag is supplied, agentId when supplied, and one createdAt
\* range whenever start and/or end is supplied, gte = start and lte = end
\* exactly when supplied, 0 included.
C5_AsStated ==
    Awaits(1, "getMemories", "scroll")
    => ListingFilterIs(ConditionsAsStated(calls[1].args))

\* C5, amended: the filter holds exactly type, roomId, unique = "true" when
\* the flag is true (none when false or absent), agentId when supplied, and
\* one createdAt range whenever a non-zero start and/or end is supplied, with
\* gte = start exactly when start is supplied and non-zero and lte = end
\* exactly when end is supplied and non-zero.
C5_ListingFilter ==
    Awaits(1, "getMemories", "scroll")
    => ListingFilterIs(ConditionsAmended(calls[1].args))

\* C5 witness: a listing with unique = false, start = 0 and end = 200 is
\* awaiting the store with a filter of type, roomId and a range with lte only.
C5_Witness ==
    /\ Awaits(1, "getMemories", "scroll")
    /\ calls[1].args.unique = Some(FALSE)
    /\ calls[1].args.start = Some(0)
    /\ calls[1].args.end = Some(200)
    /\ calls[1].args.agentId = None
    /\ Len(Val(calls[1].req).filter) = 3
    /\ Val(calls[1].req).filter[3] =
          [range |-> [key |-> "createdAt", gte |-> None, lte |-> Some(200)]]

(* ------------------------------------------------------------------------ *)
\* Failures: the operations that await the store, sequenced by the caller,
\* against a store whose every request may fail.
FailKnowledgeInputs == {Knowledge("id1", "a1", None, Some(Float32(E1)))}
FailSearchInputs ==
    [agentId : {"a1"}, embedding : {E1, E3}, match_threshold : {None},
     match_count : {None}]
FailMemoryInputs ==
    {[memory |-> Memory(Some(id), e, "r1", None), tableName |-> "facts",
      unique |-> None] : id \in Range(RecordIds), e \in {None, Some(E1)}}
FailListInputs ==
    {[roomId |-> "r1", tableName |-> "facts", count |-> None, unique |-> None,
      agentId |-> None, start |-> None, end |-> None]}

NextFail ==
    \/ Sequenced /\ InitStart(1)
    \/ InitListed(1)
    \/ InitCreated(1)
    \/ \E k \in FailKnowledgeInputs : Sequenced /\ CreateKnowledgeStart(1, k)
    \/ CreateKnowledgeDone(1)
    \/ \E a \in FailSearchInputs : Sequenced /\ SearchKnowledgeStart(1, a)
    \/ SearchKnowledgeDone(1)
    \/ \E a \in FailMemoryInputs : Sequenced /\ CreateMemoryStart(1, a)
    \/ CreateMemoryChecked(1)
    \/ CreateMemoryDone(1)
    \/ \E a \in FailListInputs : Sequenced /\ GetMemoriesStart(1, a)
    \/ GetMemoriesDone(1)
    \/ StoreRejected(1)
    \/ StoreFails(1)

SpecFail == Init /\ [][NextFail]_vars

(* ------------------------- claims: store failures ----------------------- *)

\* the call of slot 1 has thrown the store's error
FailedOn(op) ==
    /\ calls[1].op = op
    /\ calls[1].pc = "done"
    /\ calls[1].status = "error"
    /\ calls[1].result = Some(StoreError)

\* C7: a failure of a store call reaches the caller unchanged and ends the
\* operation: the awaiting call throws the store's error with no further
\* request and no change to the store or the cache; after a failed
\* searchKnowledge the identical call queries the store again; and a
\* createMemory whose pre-check failed leaves no point for its record.
C7_FailurePropagates ==
    /\ [][(calls[1].pc = "await" /\ calls'[1].status = "error")
            => /\ calls'[1].pc = "done"
               /\ calls'[1].op = calls[1].op
               /\ calls'[1].result = Some(StoreError)
               /\ calls'[1].nreq = calls[1].nreq
               /\ UNCHANGED <<collections, points, cacheM>>]_vars
    /\ [][(/\ FailedOn("searchKnowledge")
           /\ calls'[1] # calls[1]
           /\ calls'[1].op = "searchKnowledge"
           /\ calls'[1].args = calls[1].args)
            => /\ calls'[1].pc = "await"
               /\ calls'[1].nreq = 1
               /\ Val(calls'[1].req).kind = "search"]_vars
    /\ []((/\ FailedOn("createMemory")
           /\ IsSome(calls[1].args.memory.embedding)
           /\ calls[1].nreq = 1
           /\ Val(calls[1].args.memory.id) \notin DOMAIN written)
            => buildQdrantID(Val(calls[1].args.memory.id)) \notin DOMAIN points)

\* C7 witness: a searchKnowledge has thrown the store's error after its one
\* request, against a store that holds the collection and a point, and the
\* cache has no entry for the call.
C7_Witness ==
    /\ FailedOn("searchKnowledge")
    /\ calls[1].nreq = 1
    /\ collectionName \in collections
    /\ DOMAIN points # {}
    /\ ~IsSome(getCache(calls[1].args.agentId, KnowledgeCacheKey(calls[1].args)))

(* ------------------------------------------------------------------------ *)
\* Concurrency: createMemory calls in flight together, every interleaving
\* of their awaits.
ConcMemoryInputs ==
    {[memory |-> Memory(Some(id), Some(e), "r1", None), tableName |-> "facts",
      unique |-> None] : id \in Range(RecordIds), e \in {E1, E2, E3}}
    \cup {[memory |-> Memory(Some("id2"), Some(E2), "r2", None),
           tableName |-> "facts", unique |-> None]}

NextConc ==
    \E p \in Slots :
        \/ InitStart(p)
        \/ InitListed(p)
        \/ InitCreated(p)
        \/ \E a \in ConcMemoryInputs : CreateMemoryStart(p, a)
        \/ CreateMemoryChecked(p)
        \/ CreateMemoryDone(p)
        \/ StoreRejected(p)

SpecConc == Init /\ [][NextConc]_vars

(* ---------------------- claims: the pre-check race ---------------------- *)

\* the threshold the pre-check is stated to use: 0.95
StatedThreshold == Ratio(19, 20)

\* point id is a near-duplicate of vector v in room roomId of table tableName
NearDuplicate(id, v, roomId, tableName) ==
    /\ points[id].payload.type = tableName
    /\ points[id].payload.roomId = roomId
    /\ CosineAtLeast(points[id].vector, v, StatedThreshold)

\* the store holds a near-duplicate of the memory of call a, other than the
\* points in Except
SimilarStored(a, Except) ==
    \E id \in DOMAIN points \ Except :
        NearDuplicate(id, Val(a.memory.embedding), a.memory.roomId, a.tableName)

\* two distinct points that are near-duplicates of each other are both flagged
\* unique
TwinUniques ==
    \E i, j \in DOMAIN points :
        /\ i # j
        /\ NearDuplicate(i, points[j].vector, points[j].payload.roomId,
                         points[j].payload.type)
        /\ points[i].payload.unique
        /\ points[j].payload.unique

\* every call so far went through slot 1: the caller sequenced them
OnlySlotOne == \A q \in Slots \ {1} : calls[q].pc = "idle"

\* C10: the pre-check is not atomic with the write. Each call is flagged by
\* what the store held when its pre-check was answered; when the caller
\* sequences the calls, a call made while the store holds a near-duplicate
\* under another id is written with the flag false, and no two near-duplicates
\* are both flagged unique. (That concurrent calls do write two near-duplicates
\* both flagged unique is the witness.)
C10_PreCheckRace ==
    /\ [][\A p \in Slots :
            PreCheckAnswered(p)
            => Val(calls'[p].req).point.payload.unique
                 = ~SimilarStored(calls[p].args, {})]_vars
    /\ []((/\ OnlySlotOne
           /\ calls[1].op = "createMemory"
           /\ calls[1].pc = "done"
           /\ calls[1].status = "ok"
           /\ SimilarStored(calls[1].args,
                            {buildQdrantID(Val(calls[1].args.memory.id))}))
            => ~points[buildQdrantID(Val(calls[1].args.memory.id))].payload.unique)
    /\ [](OnlySlotOne => ~TwinUniques)

\* C10 witness: two concurrent calls for near-duplicates under different ids
\* have both returned, and both points are stored with the flag true.
C10_Witness ==
    /\ \A p \in Slots : calls[p].op = "createMemory" /\ calls[p].status = "ok"
    /\ calls[1].args.memory.id # calls[2].args.memory.id
    /\ calls[1].args.memory.embedding # calls[2].args.memory.embedding
    /\ TwinUniques

====
